---- MODULE Spec2Model ----
(***************************************************************************)
(* The RV32I instruction semantics of the RISC-V interpreter                *)
(* (src/risc_v/interpreter/src/interpreter/rv32i.rs) over a hart state made *)
(* of the program counter cell and the 32 integer registers.                *)
(*                                                                          *)
(* Machine words.  TLC's integers are 32 bits wide, so a u64 is held as its *)
(* four 16-bit limbs, least significant first: the word <<l0, l1, l2, l3>>  *)
(* is the number l0 + l1*2^16 + l2*2^32 + l3*2^48.  An i64 is held as the   *)
(* mathematical integer it denotes, sign and magnitude: [neg, mag] with mag *)
(* a word, mag <= 2^63 when neg and mag < 2^63 otherwise, and no negative   *)
(* zero.  The casts `as u64` and `as i64` are then real conversions         *)
(* (two's complement), as are the signed and the unsigned comparisons.      *)
(***************************************************************************)
EXTENDS Integers, Sequences, FiniteSets

VARIABLES pc, xregisters, bus, last, steps

vars == <<pc, xregisters, bus, last, steps>>

----------------------------------------------------------------------------
(* Bounds of the model. *)

\* The number of instruction semantics a behaviour runs after the set-up.
MaxSteps == 1

\* The number of instruction semantics a program of the model runs in
\* sequence.
MaxSeq == 3

\* The number of bus accesses a behaviour of the bus makes.
MaxBusOps == 2

\* The length in bytes of the devices address space
\* (devices::DEVICES_ADDRESS_SPACE_LENGTH) and of the main memory (ML::LEN8),
\* scaled down: both are layout constants the bus is generic in.
DEVICES_ADDRESS_SPACE_LENGTH == 8
LEN8 == 12

----------------------------------------------------------------------------
(* Words and the primitive operations of Rust's u64 and i64. *)

Base == 2^16

\* The u64 with the limbs h3 (most significant) .. h0, written as in hex.
Word(h3, h2, h1, h0) == <<h0, h1, h2, h3>>

Zero == Word(0, 0, 0, 0)
One == Word(0, 0, 0, 1)

\* A small natural number (below 2^16) as a u64.
U64(n) == Word(0, 0, 0, n)

\* An i64: the integer +mag or -mag.
Pos(mag) == [neg |-> FALSE, mag |-> mag]
Neg(mag) == [neg |-> mag # Zero, mag |-> mag]

\* u64::wrapping_add: limb by limb with carry, the carry out of bit 63 dropped.
wrapping_add(a, b) ==
    LET s1 == a[1] + b[1]
        s2 == a[2] + b[2] + (s1 \div Base)
        s3 == a[3] + b[3] + (s2 \div Base)
        s4 == a[4] + b[4] + (s3 \div Base)
    IN  <<s1 % Base, s2 % Base, s3 % Base, s4 % Base>>

\* The bitwise operators on one limb, bit by bit from the least significant.
RECURSIVE LimbAnd(_, _)
LimbAnd(x, y) ==
    IF x = 0 \/ y = 0 THEN 0
    ELSE (x % 2) * (y % 2) + 2 * LimbAnd(x \div 2, y \div 2)

RECURSIVE LimbOr(_, _)
LimbOr(x, y) ==
    IF x = 0 THEN y
    ELSE IF y = 0 THEN x
    ELSE (IF x % 2 = 1 \/ y % 2 = 1 THEN 1 ELSE 0) + 2 * LimbOr(x \div 2, y \div 2)

RECURSIVE LimbXor(_, _)
LimbXor(x, y) ==
    IF x = 0 THEN y
    ELSE IF y = 0 THEN x
    ELSE (IF x % 2 # y % 2 THEN 1 ELSE 0) + 2 * LimbXor(x \div 2, y \div 2)

\* u64 `&`, `|`, `^` and `!`.
BitAnd(a, b) ==
    <<LimbAnd(a[1], b[1]), LimbAnd(a[2], b[2]), LimbAnd(a[3], b[3]), LimbAnd(a[4], b[4])>>

BitOr(a, b) ==
    <<LimbOr(a[1], b[1]), LimbOr(a[2], b[2]), LimbOr(a[3], b[3]), LimbOr(a[4], b[4])>>

BitXor(a, b) ==
    <<LimbXor(a[1], b[1]), LimbXor(a[2], b[2]), LimbXor(a[3], b[3]), LimbXor(a[4], b[4])>>

BitNot(a) ==
    <<(Base - 1) - a[1], (Base - 1) - a[2], (Base - 1) - a[3], (Base - 1) - a[4]>>

\* u64 `<` and `>=`: the most significant differing limb decides.
U64Lt(a, b) ==
    IF a[4] # b[4] THEN a[4] < b[4]
    ELSE IF a[3] # b[3] THEN a[3] < b[3]
    ELSE IF a[2] # b[2] THEN a[2] < b[2]
    ELSE a[1] < b[1]

U64Ge(a, b) == ~U64Lt(a, b)

\* `x as u64` of an i64 x: the two's complement bit pattern of x.
AsU64(x) == IF x.neg THEN wrapping_add(BitNot(x.mag), One) ELSE x.mag

\* `v as i64` of a u64 v: the integer whose two's complement pattern is v.
AsI64(v) ==
    IF v[4] >= Base \div 2
    THEN [neg |-> TRUE, mag |-> wrapping_add(BitNot(v), One)]
    ELSE [neg |-> FALSE, mag |-> v]

\* i64 `<` and `>=`: the order of the integers.
I64Lt(x, y) ==
    IF x.neg # y.neg THEN x.neg
    ELSE IF x.neg THEN U64Lt(y.mag, x.mag)
    ELSE U64Lt(x.mag, y.mag)

I64Ge(x, y) == ~I64Lt(x, y)

----------------------------------------------------------------------------
(* The inputs the model draws from. *)

\* The 32 register indices, and the ones the model uses as operands:
\* x0 and a2.
XRegister == 0 .. 31
RegIdx == {0, 12}

\* Program counters the caller sets (next to the 0 of a new hart):
\* u64::MAX - 1 and 0xFFFF_FFFF_FFF0_0000.
PCVals ==
    { Word(65535, 65535, 65535, 65534),
      Word(65535, 65535, 65520, 0) }

\* Register values the caller writes (next to the 0 of a new hart):
\* i64::MAX, i64::MIN (0x8000_0000_0000_0000) and -200.
XVals ==
    { Word(32767, 65535, 65535, 65535),
      Word(32768, 0, 0, 0),
      Word(65535, 65535, 65535, 65336) }

\* Immediates: 0, 4, -1, -100, 0x10_0000.
Imms ==
    { Pos(Zero), Pos(U64(4)), Neg(One), Neg(U64(100)), Pos(Word(0, 0, 16, 0)) }

----------------------------------------------------------------------------
(* The hart state: the program counter cell and the register file. *)

\* What the last call was, with its operands, the value it returned and the
\* state it was entered in (a history variable: the code keeps none of it).
Call(op, args, ret) ==
    [op |-> op, args |-> args, ret |-> ret, pc |-> pc, xregisters |-> xregisters]

\* A call that returns no value.
Unit == <<>>

\* A new hart.  The reset value of every cell is taken to be zero; the
\* caller's stores below bring in the other values.
Init ==
    /\ pc = Zero
    /\ xregisters = [r \in XRegister |-> Zero]
    /\ bus = [devices |-> [i \in 1..DEVICES_ADDRESS_SPACE_LENGTH |-> 0],
              memory |-> [i \in 1..LEN8 |-> 0]]
    /\ last = [op |-> "new"]
    /\ steps = 0

\* XRegisters::read and XRegisters::write; pc.read and pc.write.
read(r) == xregisters[r]

write(r, v) == xregisters' = [xregisters EXCEPT ![r] = v]

pc_read == pc

\* The caller stores a program counter (state.pc.write(init_pc)).
pc_write(v) ==
    /\ pc' = v
    /\ UNCHANGED xregisters
    /\ last' = Call("pc.write", [value |-> v], Unit)

\* The caller stores a register (state.xregisters.write(r, v)).
xregisters_write(r, v) ==
    /\ write(r, v)
    /\ UNCHANGED pc
    /\ last' = Call("write", [r |-> r, value |-> v], Unit)

----------------------------------------------------------------------------
(* impl XRegisters: the register-immediate instructions. *)

\* A faulty ADDI: the sum saturates at u64::MAX instead of wrapping.
run_addi_saturating(imm, rs1, rd) ==
    LET rval == read(rs1)
        sum == wrapping_add(rval, AsU64(imm))
        result == IF U64Lt(sum, rval) THEN BitNot(Zero) ELSE sum
    IN  /\ write(rd, result)
        /\ UNCHANGED pc
        /\ last' = Call("addi", [imm |-> imm, rs1 |-> rs1, rd |-> rd], Unit)

\* `ADDI`
run_addi(imm, rs1, rd) ==
    LET rval == read(rs1)
        result == wrapping_add(rval, AsU64(imm))
    IN  /\ write(rd, result)
        /\ UNCHANGED pc
        /\ last' = Call("addi", [imm |-> imm, rs1 |-> rs1, rd |-> rd], Unit)

\* A faulty LUI: the core clears the lower 12 bits of the immediate itself.
run_lui_masked(imm, rd) ==
    /\ write(rd, BitAnd(AsU64(imm), Word(65535, 65535, 65535, 61440)))
    /\ UNCHANGED pc
    /\ last' = Call("lui", [imm |-> imm, rd |-> rd], Unit)

\* `LUI`
run_lui(imm, rd) ==
    /\ write(rd, AsU64(imm))
    /\ UNCHANGED pc
    /\ last' = Call("lui", [imm |-> imm, rd |-> rd], Unit)

\* A faulty ANDI: only the low 32 bits of the immediate are used (the
\* immediate zero-extended, not sign-extended).
run_andi_low32(imm, rs1, rd) ==
    LET bits == AsU64(imm)
        result == BitAnd(read(rs1), <<bits[1], bits[2], 0, 0>>)
    IN  /\ write(rd, result)
        /\ UNCHANGED pc
        /\ last' = Call("andi", [imm |-> imm, rs1 |-> rs1, rd |-> rd], Unit)

\* `ANDI`
run_andi(imm, rs1, rd) ==
    LET result == BitAnd(read(rs1), AsU64(imm))
    IN  /\ write(rd, result)
        /\ UNCHANGED pc
        /\ last' = Call("andi", [imm |-> imm, rs1 |-> rs1, rd |-> rd], Unit)

\* A faulty ORI: x0 is hard-wired, a result for rd = x0 is dropped.
run_ori_x0_hardwired(imm, rs1, rd) ==
    LET result == BitOr(read(rs1), AsU64(imm))
    IN  /\ IF rd = 0 THEN UNCHANGED xregisters ELSE write(rd, result)
        /\ UNCHANGED pc
        /\ last' = Call("ori", [imm |-> imm, rs1 |-> rs1, rd |-> rd], Unit)

\* `ORI`
run_ori(imm, rs1, rd) ==
    LET result == BitOr(read(rs1), AsU64(imm))
    IN  /\ write(rd, result)
        /\ UNCHANGED pc
        /\ last' = Call("ori", [imm |-> imm, rs1 |-> rs1, rd |-> rd], Unit)

\* A faulty XORI: the result is stored in rs1 as well as in rd.
run_xori_clobbers_rs1(imm, rs1, rd) ==
    LET result == BitXor(read(rs1), AsU64(imm))
    IN  /\ xregisters' = [xregisters EXCEPT ![rs1] = result, ![rd] = result]
        /\ UNCHANGED pc
        /\ last' = Call("xori", [imm |-> imm, rs1 |-> rs1, rd |-> rd], Unit)

\* `XORI`
run_xori(imm, rs1, rd) ==
    LET result == BitXor(read(rs1), AsU64(imm))
    IN  /\ write(rd, result)
        /\ UNCHANGED pc
        /\ last' = Call("xori", [imm |-> imm, rs1 |-> rs1, rd |-> rd], Unit)

----------------------------------------------------------------------------
(* impl HartState: AUIPC, the jumps and the branches. *)

\* A faulty AUIPC: the sum is also stored in the program counter.
run_auipc_writes_pc(imm, rd) ==
    LET rval == wrapping_add(pc_read, AsU64(imm))
    IN  /\ write(rd, rval)
        /\ pc' = rval
        /\ last' = Call("auipc", [imm |-> imm, rd |-> rd], Unit)

\* `AUIPC`
run_auipc(imm, rd) ==
    LET rval == wrapping_add(pc_read, AsU64(imm))
    IN  /\ write(rd, rval)
        /\ UNCHANGED pc
        /\ last' = Call("auipc", [imm |-> imm, rd |-> rd], Unit)

\* A faulty JALR: rd is written before rs1 is read, so that with rs1 = rd the
\* target is computed from the return address.
run_jalr_impl_write_first(INSTR_WIDTH, imm, rs1, rd) ==
    LET return_address == wrapping_add(pc_read, INSTR_WIDTH)
        rs1_after == IF rs1 = rd THEN return_address ELSE read(rs1)
        target_address ==
            BitAnd(wrapping_add(rs1_after, AsU64(imm)), BitNot(One))
    IN  /\ write(rd, return_address)
        /\ UNCHANGED pc
        /\ last' = Call("jalr", [imm |-> imm, rs1 |-> rs1, rd |-> rd], target_address)

\* Generic `JALR` w.r.t. instruction width
run_jalr_impl(INSTR_WIDTH, imm, rs1, rd) ==
    LET return_address == wrapping_add(pc_read, INSTR_WIDTH)
        target_address ==
            BitAnd(wrapping_add(read(rs1), AsU64(imm)), BitNot(One))
    IN  /\ write(rd, return_address)
        /\ UNCHANGED pc
        /\ last' = Call("jalr", [imm |-> imm, rs1 |-> rs1, rd |-> rd], target_address)

\* `JALR` (uncompressed)
run_jalr(imm, rs1, rd) == run_jalr_impl(U64(4), imm, rs1, rd)

\* A faulty JAL: the target is taken from the return address, not from the
\* program counter.
run_jal_impl_from_return(INSTR_WIDTH, imm, rd) ==
    LET current_pc == pc_read
        return_address == wrapping_add(current_pc, INSTR_WIDTH)
    IN  /\ write(rd, return_address)
        /\ UNCHANGED pc
        /\ last' = Call("jal", [imm |-> imm, rd |-> rd],
                        wrapping_add(return_address, AsU64(imm)))

\* Generic `JAL` w.r.t. instruction width
run_jal_impl(INSTR_WIDTH, imm, rd) ==
    LET current_pc == pc_read
        return_address == wrapping_add(current_pc, INSTR_WIDTH)
    IN  /\ write(rd, return_address)
        /\ UNCHANGED pc
        /\ last' = Call("jal", [imm |-> imm, rd |-> rd],
                        wrapping_add(current_pc, AsU64(imm)))

\* `JAL` (uncompressed)
run_jal(imm, rd) == run_jal_impl(U64(4), imm, rd)

\* A branch changes no cell: it only returns the next program counter.
Branch(op, imm, rs1, rs2, next_pc) ==
    /\ UNCHANGED <<pc, xregisters>>
    /\ last' = Call(op, [imm |-> imm, rs1 |-> rs1, rs2 |-> rs2], next_pc)

\* A faulty BEQ: the branch stores the next program counter itself.
run_beq_impl_writes_pc(INSTR_WIDTH, imm, rs1, rs2) ==
    LET current_pc == pc_read
        next_pc == IF read(rs1) = read(rs2)
                   THEN wrapping_add(current_pc, AsU64(imm))
                   ELSE wrapping_add(current_pc, INSTR_WIDTH)
    IN  /\ pc' = next_pc
        /\ UNCHANGED xregisters
        /\ last' = Call("beq", [imm |-> imm, rs1 |-> rs1, rs2 |-> rs2], next_pc)

\* Generic `BEQ` w.r.t. instruction width
run_beq_impl(INSTR_WIDTH, imm, rs1, rs2) ==
    LET current_pc == pc_read
    IN  Branch("beq", imm, rs1, rs2,
               IF read(rs1) = read(rs2)
               THEN wrapping_add(current_pc, AsU64(imm))
               ELSE wrapping_add(current_pc, INSTR_WIDTH))

\* `BEQ`
run_beq(imm, rs1, rs2) == run_beq_impl(U64(4), imm, rs1, rs2)

\* A faulty BNE: the branch is taken when the registers are equal.
run_bne_impl_inverted(INSTR_WIDTH, imm, rs1, rs2) ==
    LET current_pc == pc_read
    IN  Branch("bne", imm, rs1, rs2,
               IF read(rs1) = read(rs2)
               THEN wrapping_add(current_pc, AsU64(imm))
               ELSE wrapping_add(current_pc, INSTR_WIDTH))

\* Generic `BNE` w.r.t. instruction width
run_bne_impl(INSTR_WIDTH, imm, rs1, rs2) ==
    LET current_pc == pc_read
    IN  Branch("bne", imm, rs1, rs2,
               IF read(rs1) # read(rs2)
               THEN wrapping_add(current_pc, AsU64(imm))
               ELSE wrapping_add(current_pc, INSTR_WIDTH))

\* `BNE`
run_bne(imm, rs1, rs2) == run_bne_impl(U64(4), imm, rs1, rs2)

\* A faulty BGE: the comparison is strict (`>`).
run_bge_strict(imm, rs1, rs2) ==
    LET current_pc == pc_read
        lhs == AsI64(read(rs1))
        rhs == AsI64(read(rs2))
    IN  Branch("bge", imm, rs1, rs2,
               IF I64Lt(rhs, lhs)
               THEN wrapping_add(current_pc, AsU64(imm))
               ELSE wrapping_add(current_pc, U64(4)))

\* `BGE`
run_bge(imm, rs1, rs2) ==
    LET current_pc == pc_read
        lhs == AsI64(read(rs1))
        rhs == AsI64(read(rs2))
    IN  Branch("bge", imm, rs1, rs2,
               IF I64Ge(lhs, rhs)
               THEN wrapping_add(current_pc, AsU64(imm))
               ELSE wrapping_add(current_pc, U64(4)))

\* A faulty BGEU: the operands are compared as signed integers.
run_bgeu_signed(imm, rs1, rs2) ==
    LET current_pc == pc_read
        lhs == AsI64(read(rs1))
        rhs == AsI64(read(rs2))
    IN  Branch("bgeu", imm, rs1, rs2,
               IF I64Ge(lhs, rhs)
               THEN wrapping_add(current_pc, AsU64(imm))
               ELSE wrapping_add(current_pc, U64(4)))

\* `BGEU`
run_bgeu(imm, rs1, rs2) ==
    LET current_pc == pc_read
        lhs == read(rs1)
        rhs == read(rs2)
    IN  Branch("bgeu", imm, rs1, rs2,
               IF U64Ge(lhs, rhs)
               THEN wrapping_add(current_pc, AsU64(imm))
               ELSE wrapping_add(current_pc, U64(4)))

\* A faulty BLT: the operands are compared as unsigned integers.
run_blt_unsigned(imm, rs1, rs2) ==
    LET current_pc == pc_read
        lhs == read(rs1)
        rhs == read(rs2)
    IN  Branch("blt", imm, rs1, rs2,
               IF U64Lt(lhs, rhs)
               THEN wrapping_add(current_pc, AsU64(imm))
               ELSE wrapping_add(current_pc, U64(4)))

\* `BLT`
run_blt(imm, rs1, rs2) ==
    LET current_pc == pc_read
        lhs == AsI64(read(rs1))
        rhs == AsI64(read(rs2))
    IN  Branch("blt", imm, rs1, rs2,
               IF I64Lt(lhs, rhs)
               THEN wrapping_add(current_pc, AsU64(imm))
               ELSE wrapping_add(current_pc, U64(4)))

\* `BLTU`
run_bltu(imm, rs1, rs2) ==
    LET current_pc == pc_read
        lhs == read(rs1)
        rhs == read(rs2)
    IN  Branch("bltu", imm, rs1, rs2,
               IF U64Lt(lhs, rhs)
               THEN wrapping_add(current_pc, AsU64(imm))
               ELSE wrapping_add(current_pc, U64(4)))

----------------------------------------------------------------------------
(* The bus (machine_state/src/bus.rs): devices at [0, DEVICES_LEN), main
   memory behind them.  A region is the sequence of its bytes; an element of
   type E is the sequence of its size_of(E) bytes, least significant first. *)

\* u64::saturating_sub: 0 when b > a, else limb by limb with borrow.
saturating_sub(a, b) ==
    IF U64Lt(a, b) THEN Zero
    ELSE LET d1 == a[1] - b[1]
             d2 == a[2] - b[2] - (IF d1 < 0 THEN 1 ELSE 0)
             d3 == a[3] - b[3] - (IF d2 < 0 THEN 1 ELSE 0)
             d4 == a[4] - b[4] - (IF d3 < 0 THEN 1 ELSE 0)
         IN  <<d1 % Base, d2 % Base, d3 % Base, d4 % Base>>

\* Result<E, OutOfBounds>
Ok(v) == [ok |-> TRUE, value |-> v]
OutOfBounds == [ok |-> FALSE]

\* A faulty locate: the end of main memory is tested with `<=`.
locate_inclusive(addr) ==
    IF U64Lt(addr, U64(DEVICES_ADDRESS_SPACE_LENGTH))
    THEN <<"Devices", addr>>
    ELSE LET mem_addr == saturating_sub(addr, U64(DEVICES_ADDRESS_SPACE_LENGTH))
             mem_size == U64(LEN8)
         IN  IF ~U64Lt(mem_size, mem_addr)
             THEN <<"MainMemory", mem_addr>>
             ELSE <<"OutOfBounds", addr>>

\* AddressSpace::locate
locate(addr) ==
    IF U64Lt(addr, U64(DEVICES_ADDRESS_SPACE_LENGTH))
    THEN <<"Devices", addr>>
    ELSE LET mem_addr == saturating_sub(addr, U64(DEVICES_ADDRESS_SPACE_LENGTH))
             mem_size == U64(LEN8)
         IN  IF U64Lt(mem_addr, mem_size)
             THEN <<"MainMemory", mem_addr>>
             ELSE <<"OutOfBounds", addr>>

\* Whether the size bytes at the local address lie in a region of len bytes:
\* addr + size <= len.
in_bounds(len, addr, size) ==
    /\ addr[2] = 0 /\ addr[3] = 0 /\ addr[4] = 0
    /\ addr[1] + size <= len

\* Addressable::read of a region (devices, main memory): the element at the
\* local address, or OutOfBounds.
region_read(region, addr, size) ==
    IF in_bounds(Len(region), addr, size)
    THEN Ok(SubSeq(region, addr[1] + 1, addr[1] + size))
    ELSE OutOfBounds

\* Addressable::write of a region: the region with the element stored.
region_store(region, addr, value) ==
    [i \in 1..Len(region) |->
        IF addr[1] < i /\ i <= addr[1] + Len(value) THEN value[i - addr[1]] ELSE region[i]]

\* What the last bus access was, with the place locate gave it, its result
\* and the bus it was made on.
BusCall(op, addr, size, value, ret) ==
    [op |-> op, addr |-> addr, size |-> size, value |-> value,
     located |-> locate(addr), ret |-> ret, bus |-> bus]

\* A faulty Bus::read: the two regions are read as one flat array, so an
\* element may span the end of the devices into main memory.
bus_read_flat(addr, size) ==
    LET flat == bus.devices \o bus.memory
        ret == IF locate(addr)[1] = "OutOfBounds"
               THEN OutOfBounds
               ELSE region_read(flat, addr, size)
    IN  /\ UNCHANGED bus
        /\ last' = BusCall("bus.read", addr, size, <<>>, ret)

\* Bus::read
bus_read(addr, size) ==
    LET addr_space == locate(addr)[1]
        local_address == locate(addr)[2]
        ret == CASE addr_space = "Devices" -> region_read(bus.devices, local_address, size)
                 [] addr_space = "MainMemory" -> region_read(bus.memory, local_address, size)
                 [] addr_space = "OutOfBounds" -> OutOfBounds
    IN  /\ UNCHANGED bus
        /\ last' = BusCall("bus.read", addr, size, <<>>, ret)

\* Bus::write
bus_write(addr, value) ==
    LET addr_space == locate(addr)[1]
        local_address == locate(addr)[2]
        size == Len(value)
    IN  CASE addr_space = "Devices" ->
                 IF in_bounds(Len(bus.devices), local_address, size)
                 THEN /\ bus' = [bus EXCEPT !.devices = region_store(@, local_address, value)]
                      /\ last' = BusCall("bus.write", addr, size, value, Ok(<<>>))
                 ELSE /\ UNCHANGED bus
                      /\ last' = BusCall("bus.write", addr, size, value, OutOfBounds)
          [] addr_space = "MainMemory" ->
                 IF in_bounds(Len(bus.memory), local_address, size)
                 THEN /\ bus' = [bus EXCEPT !.memory = region_store(@, local_address, value)]
                      /\ last' = BusCall("bus.write", addr, size, value, Ok(<<>>))
                 ELSE /\ UNCHANGED bus
                      /\ last' = BusCall("bus.write", addr, size, value, OutOfBounds)
          [] addr_space = "OutOfBounds" ->
                 /\ UNCHANGED bus
                 /\ last' = BusCall("bus.write", addr, size, value, OutOfBounds)

\* The sizes of the element types u8 / i8 .. u64 / i64.
ElemSizes == {1, 2, 4, 8}

\* The bytes of the elements the model stores: size bytes counting up from a
\* tag.
Elems == { [i \in 1..size |-> tag + i] : size \in ElemSizes, tag \in {16, 160} }

\* The addresses the model accesses: around both ends of each region, with
\* only a higher limb set, and at the top of the address space.
BusAddrs ==
    { Zero,
      U64(DEVICES_ADDRESS_SPACE_LENGTH - 4),
      U64(DEVICES_ADDRESS_SPACE_LENGTH - 1),
      U64(DEVICES_ADDRESS_SPACE_LENGTH),
      U64(DEVICES_ADDRESS_SPACE_LENGTH + LEN8 - 8),
      U64(DEVICES_ADDRESS_SPACE_LENGTH + LEN8 - 1),
      U64(DEVICES_ADDRESS_SPACE_LENGTH + LEN8),
      Word(0, 0, 1, DEVICES_ADDRESS_SPACE_LENGTH),
      Word(1, 0, 0, 0),
      Word(32768, 0, 0, DEVICES_ADDRESS_SPACE_LENGTH - 1),
      Word(65535, 65535, 65535, 65535 - LEN8),
      Word(65535, 65535, 65535, 65535) }

\* One bus access, at most MaxBusOps of them in a behaviour.
Access(A) ==
    steps < MaxBusOps /\ A /\ UNCHANGED <<pc, xregisters>> /\ steps' = steps + 1

BusNext ==
    \/ \E addr \in BusAddrs, size \in ElemSizes : Access(bus_read(addr, size))
    \/ \E addr \in BusAddrs, value \in Elems : Access(bus_write(addr, value))

BusSpec == Init /\ [][BusNext]_vars

----------------------------------------------------------------------------
(* The caller: it sets the hart up, then runs instruction semantics. *)

\* A set-up store, made before the first instruction runs.
Setup(A) == steps = 0 /\ A /\ UNCHANGED <<bus, steps>>

\* One instruction semantic, at most MaxSteps of them in a behaviour.
Issue(A) == steps < MaxSteps /\ A /\ UNCHANGED bus /\ steps' = steps + 1

Next ==
    \/ \E v \in PCVals : Setup(pc_write(v))
    \/ \E r \in RegIdx, v \in XVals : Setup(xregisters_write(r, v))
    \/ \E imm \in Imms, rs1 \in RegIdx, rd \in RegIdx : Issue(run_addi(imm, rs1, rd))
    \/ \E imm \in Imms, rd \in RegIdx : Issue(run_lui(imm, rd))
    \/ \E imm \in Imms, rs1 \in RegIdx, rd \in RegIdx : Issue(run_andi(imm, rs1, rd))
    \/ \E imm \in Imms, rs1 \in RegIdx, rd \in RegIdx : Issue(run_ori(imm, rs1, rd))
    \/ \E imm \in Imms, rs1 \in RegIdx, rd \in RegIdx : Issue(run_xori(imm, rs1, rd))
    \/ \E imm \in Imms, rd \in RegIdx : Issue(run_auipc(imm, rd))
    \/ \E imm \in Imms, rs1 \in RegIdx, rd \in RegIdx : Issue(run_jalr(imm, rs1, rd))
    \/ \E imm \in Imms, rd \in RegIdx : Issue(run_jal(imm, rd))
    \/ \E imm \in Imms, rs1 \in RegIdx, rs2 \in RegIdx : Issue(run_beq(imm, rs1, rs2))
    \/ \E imm \in Imms, rs1 \in RegIdx, rs2 \in RegIdx : Issue(run_bne(imm, rs1, rs2))
    \/ \E imm \in Imms, rs1 \in RegIdx, rs2 \in RegIdx : Issue(run_bge(imm, rs1, rs2))
    \/ \E imm \in Imms, rs1 \in RegIdx, rs2 \in RegIdx : Issue(run_bgeu(imm, rs1, rs2))
    \/ \E imm \in Imms, rs1 \in RegIdx, rs2 \in RegIdx : Issue(run_blt(imm, rs1, rs2))
    \/ \E imm \in Imms, rs1 \in RegIdx, rs2 \in RegIdx : Issue(run_bltu(imm, rs1, rs2))

Spec == Init /\ [][Next]_vars

----------------------------------------------------------------------------
(* A program: the caller sets the program counter of a new hart, then runs
   up to MaxSeq instruction semantics in sequence, storing no cell itself in
   between.  The registers hold only what the instructions store. *)

\* The immediates of the program: -100 and 4.
SeqImms == { Neg(U64(100)), Pos(U64(4)) }

\* One instruction semantic of the program.
Run(A) == steps < MaxSeq /\ A /\ UNCHANGED bus /\ steps' = steps + 1

SeqNext ==
    \/ \E v \in PCVals : Setup(pc_write(v))
    \/ \E imm \in SeqImms, rs1 \in RegIdx, rd \in RegIdx : Run(run_addi(imm, rs1, rd))
    \/ \E imm \in SeqImms, rd \in RegIdx : Run(run_lui(imm, rd))
    \/ \E imm \in SeqImms, rs1 \in RegIdx, rd \in RegIdx : Run(run_andi(imm, rs1, rd))
    \/ \E imm \in SeqImms, rs1 \in RegIdx, rd \in RegIdx : Run(run_ori(imm, rs1, rd))
    \/ \E imm \in SeqImms, rs1 \in RegIdx, rd \in RegIdx : Run(run_xori(imm, rs1, rd))
    \/ \E imm \in SeqImms, rd \in RegIdx : Run(run_auipc(imm, rd))
    \/ \E imm \in SeqImms, rs1 \in RegIdx, rd \in RegIdx : Run(run_jalr(imm, rs1, rd))
    \/ \E imm \in SeqImms, rd \in RegIdx : Run(run_jal(imm, rd))
    \/ \E imm \in SeqImms, rs1 \in RegIdx, rs2 \in RegIdx : Run(run_beq(imm, rs1, rs2))
    \/ \E imm \in SeqImms, rs1 \in RegIdx, rs2 \in RegIdx : Run(run_bne(imm, rs1, rs2))
    \/ \E imm \in SeqImms, rs1 \in RegIdx, rs2 \in RegIdx : Run(run_bge(imm, rs1, rs2))
    \/ \E imm \in SeqImms, rs1 \in RegIdx, rs2 \in RegIdx : Run(run_bgeu(imm, rs1, rs2))
    \/ \E imm \in SeqImms, rs1 \in RegIdx, rs2 \in RegIdx : Run(run_blt(imm, rs1, rs2))
    \/ \E imm \in SeqImms, rs1 \in RegIdx, rs2 \in RegIdx : Run(run_bltu(imm, rs1, rs2))

SeqSpec == Init /\ [][SeqNext]_vars

----------------------------------------------------------------------------
(* The arithmetic the claims are stated in: numbers, not machine words.
   Each operator is computed from the limbs in its own way, apart from the
   primitives the instructions use. *)

\* The limbs of a + b + carry from limb i up, the carry out of the top dropped.
RECURSIVE AddFrom(_, _, _, _)
AddFrom(a, b, i, carry) ==
    IF i > 4 THEN <<>>
    ELSE LET s == a[i] + b[i] + carry
         IN  <<s % Base>> \o AddFrom(a, b, i + 1, s \div Base)

\* The limbs of a - b - borrow from limb i up, the borrow out of the top dropped.
RECURSIVE SubFrom(_, _, _, _)
SubFrom(a, b, i, borrow) ==
    IF i > 4 THEN <<>>
    ELSE LET d == a[i] - b[i] - borrow
         IN  <<d % Base>> \o SubFrom(a, b, i + 1, IF d < 0 THEN 1 ELSE 0)

\* (v + x) mod 2^64, for a natural number v < 2^64 and an integer x.
Plus(v, x) == IF x.neg THEN SubFrom(v, x.mag, 1, 0) ELSE AddFrom(v, x.mag, 1, 0)

\* The 64-bit two's complement pattern of the integer x: x mod 2^64.
Pattern(x) == Plus(Zero, x)

\* Bit i (0 .. 63) of a word.
Bit(w, i) == (w[(i \div 16) + 1] \div (2^(i % 16))) % 2

\* w with its least significant bit cleared.
LsbCleared(w) == <<w[1] - (w[1] % 2), w[2], w[3], w[4]>>

\* a < b as unsigned 64-bit integers.
UnsignedLt(a, b) ==
    \E i \in 1..4 : a[i] < b[i] /\ \A j \in (i + 1)..4 : a[j] = b[j]

\* a < b as two's complement signed 64-bit integers: a word with bit 63 set
\* is below every word with bit 63 clear; with equal bit 63 the unsigned
\* order decides.
SignedLt(a, b) ==
    IF Bit(a, 63) # Bit(b, 63) THEN Bit(a, 63) = 1 ELSE UnsignedLt(a, b)

\* The instruction width of the uncompressed entry points, as an integer.
Four == Pos(U64(4))

\* The last call's operands and the state it was entered in.
Imm == last.args.imm
Rs1Val == last.xregisters[last.args.rs1]
Rs2Val == last.xregisters[last.args.rs2]
RdVal == xregisters[last.args.rd]
EntryPC == last.pc

----------------------------------------------------------------------------
(* C1 .. C3: the jumps and the equality branches. *)

\* C1: run_jalr(imm, rs1, rd) returns (v + imm) mod 2^64 with its least
\* significant bit cleared, v being the value rs1 held at entry (also when
\* rs1 = rd), and leaves (PC + 4) mod 2^64 in rd.
JalrContract ==
    last.op = "jalr" =>
        /\ last.ret = LsbCleared(Plus(Rs1Val, Imm))
        /\ RdVal = Plus(EntryPC, Four)

\* rs1 = rd = a2 holding i64::MAX, imm = 0, PC = u64::MAX - 1: the target is
\* i64::MAX - 1 (bit 0 cleared, from the value at entry) and a2 ends as 2.
JalrWitness ==
    /\ last.op = "jalr"
    /\ last.args.rs1 = last.args.rd
    /\ Imm = Pos(Zero)
    /\ EntryPC = Word(65535, 65535, 65535, 65534)
    /\ Rs1Val = Word(32767, 65535, 65535, 65535)
    /\ last.ret = Word(32767, 65535, 65535, 65534)
    /\ RdVal = U64(2)

\* C2: run_jal(imm, rd) returns (PC + imm) mod 2^64 and leaves
\* (PC + 4) mod 2^64 in rd, PC being the program counter at entry; both
\* sums wrap.
JalContract ==
    last.op = "jal" =>
        /\ last.ret = Plus(EntryPC, Imm)
        /\ RdVal = Plus(EntryPC, Four)

\* PC = u64::MAX - 1 and imm = -100: the target is u64::MAX - 101 and the
\* return address wraps to 2.
JalWitness ==
    /\ last.op = "jal"
    /\ Imm = Neg(U64(100))
    /\ EntryPC = Word(65535, 65535, 65535, 65534)
    /\ last.ret = Word(65535, 65535, 65535, 65434)
    /\ RdVal = U64(2)

\* C3: run_beq returns (PC + imm) mod 2^64 when rs1 and rs2 hold equal values
\* and (PC + 4) mod 2^64 otherwise; run_bne returns (PC + imm) mod 2^64 when
\* they differ and (PC + 4) mod 2^64 otherwise.
BeqBneContract ==
    /\ last.op = "beq" =>
           last.ret = IF Rs1Val = Rs2Val THEN Plus(EntryPC, Imm) ELSE Plus(EntryPC, Four)
    /\ last.op = "bne" =>
           last.ret = IF Rs1Val # Rs2Val THEN Plus(EntryPC, Imm) ELSE Plus(EntryPC, Four)

\* BNE on two registers holding i64::MIN and -200 with imm = -100 at
\* PC = u64::MAX - 1: taken, to u64::MAX - 101.
BeqBneWitness ==
    /\ last.op = "bne"
    /\ last.args.rs1 # last.args.rs2
    /\ Rs1Val = Word(32768, 0, 0, 0)
    /\ Rs2Val = Word(65535, 65535, 65535, 65336)
    /\ Imm = Neg(U64(100))
    /\ EntryPC = Word(65535, 65535, 65535, 65534)
    /\ last.ret = Word(65535, 65535, 65535, 65434)

----------------------------------------------------------------------------
(* C4 .. C6: the ordering branches, and branches on one register. *)

\* C4 as stated: run_blt returns (PC + imm) mod 2^64 iff signed(rs1) <
\* signed(rs2), run_bge returns (PC + imm) mod 2^64 iff signed(rs1) >=
\* signed(rs2), and in the other case each returns (PC + 4) mod 2^64.
BltBgeIff ==
    /\ last.op = "blt" =>
           /\ (last.ret = Plus(EntryPC, Imm)) <=> SignedLt(Rs1Val, Rs2Val)
           /\ ~SignedLt(Rs1Val, Rs2Val) => last.ret = Plus(EntryPC, Four)
    /\ last.op = "bge" =>
           /\ (last.ret = Plus(EntryPC, Imm)) <=> ~SignedLt(Rs1Val, Rs2Val)
           /\ SignedLt(Rs1Val, Rs2Val) => last.ret = Plus(EntryPC, Four)

\* C4, amended: run_blt returns (PC + imm) mod 2^64 if signed(rs1) <
\* signed(rs2) and (PC + 4) mod 2^64 otherwise; run_bge returns
\* (PC + imm) mod 2^64 if signed(rs1) >= signed(rs2) and (PC + 4) mod 2^64
\* otherwise; and when imm # 4 the returned value is (PC + imm) mod 2^64
\* only if the condition holds.
BltBgeContract ==
    /\ last.op = "blt" =>
           /\ last.ret = IF SignedLt(Rs1Val, Rs2Val)
                         THEN Plus(EntryPC, Imm) ELSE Plus(EntryPC, Four)
           /\ Imm # Four =>
                  ((last.ret = Plus(EntryPC, Imm)) <=> SignedLt(Rs1Val, Rs2Val))
    /\ last.op = "bge" =>
           /\ last.ret = IF ~SignedLt(Rs1Val, Rs2Val)
                         THEN Plus(EntryPC, Imm) ELSE Plus(EntryPC, Four)
           /\ Imm # Four =>
                  ((last.ret = Plus(EntryPC, Imm)) <=> ~SignedLt(Rs1Val, Rs2Val))

\* BGE with rs1 = i64::MIN, rs2 = i64::MAX and imm = 0x10_0000: not taken,
\* the next pc is PC + 4.
BltBgeWitness ==
    /\ last.op = "bge"
    /\ Rs1Val = Word(32768, 0, 0, 0)
    /\ Rs2Val = Word(32767, 65535, 65535, 65535)
    /\ Imm = Pos(Word(0, 0, 16, 0))
    /\ EntryPC = Word(65535, 65535, 65520, 0)
    /\ last.ret = Word(65535, 65535, 65520, 4)

\* C5 as stated: with a < b unsigned, run_bltu on (a, b) returns
\* (PC + imm) mod 2^64 and on (b, a) returns (PC + 4) mod 2^64; run_bgeu
\* returns (PC + imm) mod 2^64 iff rs1 >= rs2 unsigned, and
\* (PC + 4) mod 2^64 otherwise.
BltuBgeuIff ==
    /\ last.op = "bltu" =>
           /\ UnsignedLt(Rs1Val, Rs2Val) => last.ret = Plus(EntryPC, Imm)
           /\ UnsignedLt(Rs2Val, Rs1Val) => last.ret = Plus(EntryPC, Four)
    /\ last.op = "bgeu" =>
           /\ (last.ret = Plus(EntryPC, Imm)) <=> ~UnsignedLt(Rs1Val, Rs2Val)
           /\ UnsignedLt(Rs1Val, Rs2Val) => last.ret = Plus(EntryPC, Four)

\* C5, amended: with a < b unsigned, run_bltu on (a, b) returns
\* (PC + imm) mod 2^64 and on (b, a) returns (PC + 4) mod 2^64; run_bgeu
\* returns (PC + imm) mod 2^64 if rs1 >= rs2 unsigned and (PC + 4) mod 2^64
\* otherwise; and when imm # 4 run_bgeu returns (PC + imm) mod 2^64 only if
\* rs1 >= rs2.
BltuBgeuContract ==
    /\ last.op = "bltu" =>
           /\ UnsignedLt(Rs1Val, Rs2Val) => last.ret = Plus(EntryPC, Imm)
           /\ UnsignedLt(Rs2Val, Rs1Val) => last.ret = Plus(EntryPC, Four)
    /\ last.op = "bgeu" =>
           /\ last.ret = IF ~UnsignedLt(Rs1Val, Rs2Val)
                         THEN Plus(EntryPC, Imm) ELSE Plus(EntryPC, Four)
           /\ Imm # Four =>
                  ((last.ret = Plus(EntryPC, Imm)) <=> ~UnsignedLt(Rs1Val, Rs2Val))

\* BGEU with rs1 = i64::MIN (2^63 unsigned), rs2 = i64::MAX and
\* imm = -100 at PC = 0: taken, to -100, where the signed order would not.
BltuBgeuWitness ==
    /\ last.op = "bgeu"
    /\ Rs1Val = Word(32768, 0, 0, 0)
    /\ Rs2Val = Word(32767, 65535, 65535, 65535)
    /\ Imm = Neg(U64(100))
    /\ EntryPC = Zero
    /\ last.ret = Word(65535, 65535, 65535, 65436)

\* Whether a branch's condition holds of the values a (rs1) and b (rs2).
Taken(op, a, b) ==
    CASE op = "beq" -> a = b
      [] op = "bne" -> a # b
      [] op = "blt" -> SignedLt(a, b)
      [] op = "bge" -> ~SignedLt(a, b)
      [] op = "bltu" -> UnsignedLt(a, b)
      [] op = "bgeu" -> ~UnsignedLt(a, b)

BranchOps == {"beq", "bne", "blt", "bge", "bltu", "bgeu"}

\* C6: with rs1 and rs2 the same register, BEQ, BGE and BGEU return
\* PC + imm and BNE, BLT and BLTU return PC + 4, whatever the register
\* holds; and a taken branch with imm = 0 returns the current PC.
SameRegisterBranches ==
    last.op \in BranchOps =>
        /\ (last.args.rs1 = last.args.rs2 /\ last.op \in {"beq", "bge", "bgeu"})
               => last.ret = Plus(EntryPC, Imm)
        /\ (last.args.rs1 = last.args.rs2 /\ last.op \in {"bne", "blt", "bltu"})
               => last.ret = Plus(EntryPC, Four)
        /\ (Taken(last.op, Rs1Val, Rs2Val) /\ Imm = Pos(Zero))
               => last.ret = EntryPC

\* BGE a2, a2 with a2 = i64::MIN and imm = 0 at PC = u64::MAX - 1: taken,
\* back to PC itself.
SameRegisterWitness ==
    /\ last.op = "bge"
    /\ last.args.rs1 = last.args.rs2
    /\ Rs1Val = Word(32768, 0, 0, 0)
    /\ Imm = Pos(Zero)
    /\ EntryPC = Word(65535, 65535, 65535, 65534)
    /\ last.ret = EntryPC

----------------------------------------------------------------------------
(* C7 .. C10: the register-immediate instructions and AUIPC. *)

\* C7: after write(rs1, a) and run_addi(imm, rs1, rd), rd holds
\* (a + imm) mod 2^64, also when rs1 = rd; no overflow traps.
AddiContract ==
    last.op = "addi" => RdVal = Plus(Rs1Val, Imm)

\* ADDI a2, a2, -1 with a2 = i64::MIN written before: a2 ends as i64::MAX
\* (the signed sum overflows and wraps).
AddiWitness ==
    /\ last.op = "addi"
    /\ last.args.rs1 = last.args.rd
    /\ Rs1Val = Word(32768, 0, 0, 0)
    /\ Imm = Neg(One)
    /\ RdVal = Word(32767, 65535, 65535, 65535)

\* C8: after run_andi / run_ori / run_xori (imm, rs1, rd), each of the 64
\* bits of rd is the AND / OR / XOR of that bit of rs1's value at entry and
\* that bit of imm's two's complement pattern, also when rs1 = rd.
BitwiseContract ==
    /\ last.op = "andi" =>
           \A i \in 0..63 :
               Bit(RdVal, i) = IF Bit(Rs1Val, i) = 1 /\ Bit(Pattern(Imm), i) = 1 THEN 1 ELSE 0
    /\ last.op = "ori" =>
           \A i \in 0..63 :
               Bit(RdVal, i) = IF Bit(Rs1Val, i) = 1 \/ Bit(Pattern(Imm), i) = 1 THEN 1 ELSE 0
    /\ last.op = "xori" =>
           \A i \in 0..63 :
               Bit(RdVal, i) = IF Bit(Rs1Val, i) # Bit(Pattern(Imm), i) THEN 1 ELSE 0

\* XORI a2, a2, -100 with a2 = -200: the upper 56 bits cancel and a2 ends
\* as 0x38 ^ 0x9C = 0xA4.
BitwiseWitness ==
    /\ last.op = "xori"
    /\ last.args.rs1 = last.args.rd
    /\ Rs1Val = Word(65535, 65535, 65535, 65336)
    /\ Imm = Neg(U64(100))
    /\ RdVal = U64(164)

\* C9: after run_lui(imm, rd), rd holds the 64-bit two's complement pattern
\* of imm, unmasked and unshifted, whatever it held before.
LuiContract ==
    last.op = "lui" => RdVal = Pattern(Imm)

\* LUI with imm = -100 on a register holding i64::MAX: it ends as
\* 0xFFFF_FFFF_FFFF_FF9C, the lower 12 bits kept.
LuiWitness ==
    /\ last.op = "lui"
    /\ last.xregisters[last.args.rd] = Word(32767, 65535, 65535, 65535)
    /\ Imm = Neg(U64(100))
    /\ RdVal = Word(65535, 65535, 65535, 65436)

\* C10: after run_auipc(imm, rd), rd holds (PC + imm) mod 2^64 and the
\* program counter holds the value it had at entry.
AuipcContract ==
    last.op = "auipc" =>
        /\ RdVal = Plus(EntryPC, Imm)
        /\ pc = EntryPC

\* AUIPC with PC = 0xFFFF_FFFF_FFF0_0000 and imm = 0x10_0000 on a register
\* holding -200: the sum wraps to 0 and PC stays.
AuipcWitness ==
    /\ last.op = "auipc"
    /\ EntryPC = Word(65535, 65535, 65520, 0)
    /\ Imm = Pos(Word(0, 0, 16, 0))
    /\ last.xregisters[last.args.rd] = Word(65535, 65535, 65535, 65336)
    /\ RdVal = Zero
    /\ pc = Word(65535, 65535, 65520, 0)

----------------------------------------------------------------------------
(* C11, C12: the bus. *)

\* A word below 2^16, the range both region lengths of the model lie in.
Small(a) == a[2] = 0 /\ a[3] = 0 /\ a[4] = 0

BusOps == {"bus.read", "bus.write"}

\* C11: locate routes every addr < DEVICES_LEN to the devices at offset addr,
\* every addr with DEVICES_LEN <= addr < DEVICES_LEN + MEM_LEN to main memory
\* at offset addr - DEVICES_LEN, and every other address, up to 2^64 - 1, to
\* OutOfBounds with addr itself.
LocateContract ==
    last.op \in BusOps =>
        LET a == last.addr
            D == DEVICES_ADDRESS_SPACE_LENGTH
            M == LEN8
        IN  last.located =
                IF Small(a) /\ a[1] < D THEN <<"Devices", a>>
                ELSE IF Small(a) /\ D <= a[1] /\ a[1] < D + M
                     THEN <<"MainMemory", U64(a[1] - D)>>
                     ELSE <<"OutOfBounds", a>>

\* The address DEVICES_LEN is the first byte of main memory.
LocateWitness ==
    /\ last.op \in BusOps
    /\ last.addr = U64(DEVICES_ADDRESS_SPACE_LENGTH)
    /\ last.located = <<"MainMemory", Zero>>

\* The bytes [from, from + size) of a region, counted from 0.
Bytes(region, from, size) == [i \in 1..size |-> region[from + i]]

\* Whether the size bytes at addr lie in the devices, or in main memory.
WithinDevices(a, size) ==
    Small(a) /\ a[1] + size <= DEVICES_ADDRESS_SPACE_LENGTH

WithinMemory(a, size) ==
    /\ Small(a)
    /\ DEVICES_ADDRESS_SPACE_LENGTH <= a[1]
    /\ a[1] + size <= DEVICES_ADDRESS_SPACE_LENGTH + LEN8

\* C12: a bus access of size bytes at addr is OutOfBounds when addr is in
\* neither region or [addr, addr + size) passes the end of addr's region, and
\* then stores nothing; otherwise a read returns the size bytes at addr of
\* that one region, and a write stores its size bytes there and nothing else.
BusAccessContract ==
    last.op \in BusOps =>
        LET a == last.addr
            D == DEVICES_ADDRESS_SPACE_LENGTH
            stored(region, from) ==
                [i \in 1..Len(region) |->
                    IF from < i /\ i <= from + last.size
                    THEN last.value[i - from] ELSE region[i]]
        IN  /\ last.op = "bus.read" =>
                   /\ bus = last.bus
                   /\ last.ret =
                          IF WithinDevices(a, last.size)
                          THEN Ok(Bytes(last.bus.devices, a[1], last.size))
                          ELSE IF WithinMemory(a, last.size)
                               THEN Ok(Bytes(last.bus.memory, a[1] - D, last.size))
                               ELSE OutOfBounds
            /\ last.op = "bus.write" =>
                   IF WithinDevices(a, last.size)
                   THEN /\ last.ret = Ok(<<>>)
                        /\ bus.devices = stored(last.bus.devices, a[1])
                        /\ bus.memory = last.bus.memory
                   ELSE IF WithinMemory(a, last.size)
                        THEN /\ last.ret = Ok(<<>>)
                             /\ bus.memory = stored(last.bus.memory, a[1] - D)
                             /\ bus.devices = last.bus.devices
                        ELSE /\ last.ret = OutOfBounds
                             /\ bus = last.bus

\* An 8-byte read at DEVICES_LEN - 1, with data stored at the start of main
\* memory: OutOfBounds, not the bytes across the end of the devices.
BusAccessWitness ==
    /\ last.op = "bus.read"
    /\ last.addr = U64(DEVICES_ADDRESS_SPACE_LENGTH - 1)
    /\ last.size = 8
    /\ last.bus.memory[1] # 0
    /\ last.ret = OutOfBounds

----------------------------------------------------------------------------
(* C13, C14 and C15: the cells an instruction semantic leaves alone. *)

\* The instruction semantics that store a result in rd.
RdOps == {"addi", "andi", "ori", "xori", "lui", "auipc", "jal", "jalr"}

\* The instruction semantics that read rs1.
Rs1Ops == {"addi", "andi", "ori", "xori", "jalr"} \cup BranchOps

\* C13: no instruction semantic stores the program counter: every step of a
\* program that is a run_* call (jumps and branches, taken or not, as well as
\* AUIPC) leaves the PC cell as it found it, so that after any sequence of
\* them the cell still holds what the caller stored before the sequence.
PcUnwritten == [][steps' = steps + 1 => pc' = pc]_vars

\* Two calls in sequence ending in a taken BEQ at PC = u64::MAX - 1: the
\* branch returned another address, the PC cell still holds the caller's.
PcUnwrittenWitness ==
    /\ steps >= 2
    /\ last.op = "beq"
    /\ last.args.rs1 = last.args.rs2
    /\ last.ret # pc
    /\ pc = Word(65535, 65535, 65535, 65534)

\* w is the value the instruction semantic of the last call is specified to
\* store in rd, from the register and PC values at its entry.
ResultIs(w) ==
    CASE last.op = "addi" -> w = Plus(Rs1Val, Imm)
      [] last.op = "andi" ->
             \A i \in 0..63 :
                 Bit(w, i) = IF Bit(Rs1Val, i) = 1 /\ Bit(Pattern(Imm), i) = 1 THEN 1 ELSE 0
      [] last.op = "ori" ->
             \A i \in 0..63 :
                 Bit(w, i) = IF Bit(Rs1Val, i) = 1 \/ Bit(Pattern(Imm), i) = 1 THEN 1 ELSE 0
      [] last.op = "xori" ->
             \A i \in 0..63 :
                 Bit(w, i) = IF Bit(Rs1Val, i) # Bit(Pattern(Imm), i) THEN 1 ELSE 0
      [] last.op = "lui" -> w = Pattern(Imm)
      [] last.op = "auipc" -> w = Plus(EntryPC, Imm)
      [] last.op \in {"jal", "jalr"} -> w = Plus(EntryPC, Four)

\* The address a branch or JALR of the last call is specified to return,
\* from the register and PC values at its entry.
ReturnIs(w) ==
    CASE last.op = "jalr" -> w = LsbCleared(Plus(Rs1Val, Imm))
      [] last.op \in BranchOps ->
             w = IF Taken(last.op, Rs1Val, Rs2Val)
                 THEN Plus(EntryPC, Imm)
                 ELSE Plus(EntryPC, Four)

\* C14: x0 is an ordinary register.  A call with rd = x0 stores in x0 the
\* result it would store in any register, and a call that names x0 as rs1 or
\* rs2 computes with the value x0 held at its entry (so with what an earlier
\* instruction stored there, zero or not).
X0NotHardWired ==
    /\ (last.op \in RdOps /\ last.args.rd = 0) => ResultIs(xregisters[0])
    /\ (last.op \in Rs1Ops /\ last.args.rs1 = 0) =>
           /\ last.op \in RdOps => ResultIs(RdVal)
           /\ last.op \in {"jalr"} \cup BranchOps => ReturnIs(last.ret)
    /\ (last.op \in BranchOps /\ last.args.rs2 = 0) => ReturnIs(last.ret)

\* An instruction stored -100 in x0 (no caller write stores a register in a
\* program); ADDI a2, x0, 4 that follows reads it and leaves -96 in a2,
\* where a hard-wired x0 would give 4.
X0NotHardWiredWitness ==
    /\ steps >= 2
    /\ last.op = "addi"
    /\ last.args.rs1 = 0
    /\ last.args.rd = 12
    /\ Imm = Four
    /\ last.xregisters[0] = Word(65535, 65535, 65535, 65436)
    /\ xregisters[0] = last.xregisters[0]
    /\ xregisters[12] = Word(65535, 65535, 65535, 65440)

\* C15: an instruction semantic changes at most rd: every other register,
\* rs1 included when it is not rd, holds its entry value afterwards; a
\* branch, taken or not, changes no register at all.
RegisterFrame ==
    /\ last.op \in RdOps =>
           \A r \in XRegister \ {last.args.rd} : xregisters[r] = last.xregisters[r]
    /\ last.op \in BranchOps => xregisters = last.xregisters

\* JALR x0, 4(a2) with a2 = i64::MIN: x0 receives the return address and a2
\* still holds i64::MIN.
RegisterFrameWitness ==
    /\ last.op = "jalr"
    /\ last.args.rs1 = 12
    /\ last.args.rd = 0
    /\ last.xregisters[12] = Word(32768, 0, 0, 0)
    /\ xregisters[12] = Word(32768, 0, 0, 0)
    /\ xregisters[0] # last.xregisters[0]

====
